---- MODULE Spec2Model ----
(***************************************************************************)
(* Model of the project dashboard (src/app/page.tsx), its export button    *)
(* (src/app/components/TableToolbar.tsx, ExportButton part) and the        *)
(* projects API route (src/app/api/projects/route.ts).                     *)
(*                                                                         *)
(* Text is a sequence of UTF-16 code units (integers); the JavaScript      *)
(* value null is the distinguished value NULL.  Date.getTime() is counted  *)
(* in days since 1970-01-01 instead of milliseconds (a positive scaling,   *)
(* so order and the value 0 are preserved).                                *)
(***************************************************************************)
EXTENDS Integers, Sequences, FiniteSets, TLC

\* ------------------------------------------------------------------------
\* Text
\* ------------------------------------------------------------------------

\* JavaScript null for a text column
NULL == << -1 >>

\* "Not specified"
NotSpecified == <<78, 111, 116, 32, 115, 112, 101, 99, 105, 102, 105, 101, 100>>

\* ""
Empty == << >>

\* " "
Blank == <<32>>

\* "https://www.tdlr.texas.gov/TABS/"
TexasPrefix == <<104, 116, 116, 112, 115, 58, 47, 47, 119, 119, 119, 46, 116, 100, 108, 114, 46, 116, 101, 120, 97, 115, 46, 103, 111, 118, 47, 84, 65, 66, 83, 47>>

\* ".pdf"
PdfSuffix == <<46, 112, 100, 102>>

\* "PDF", "Texas", "Website"
SrcPDF == <<80, 68, 70>>
SrcTexas == <<84, 101, 120, 97, 115>>
SrcWebsite == <<87, 101, 98, 115, 105, 116, 101>>

\* JavaScript truthiness of a text value: null and "" are falsy
Falsy(v) == v = NULL \/ v = Empty

\* v || "Not specified"
OrNotSpecified(v) == IF Falsy(v) THEN NotSpecified ELSE v

\* white space removed by String.prototype.trim (the ASCII part)
IsWhiteSpace(c) == c \in {9, 10, 11, 12, 13, 32}

\* String.prototype.trim
RECURSIVE TrimStart(_)
TrimStart(s) ==
  IF s # << >> /\ IsWhiteSpace(s[1]) THEN TrimStart(Tail(s)) ELSE s

RECURSIVE TrimEnd(_)
TrimEnd(s) ==
  IF s # << >> /\ IsWhiteSpace(s[Len(s)]) THEN TrimEnd(SubSeq(s, 1, Len(s) - 1)) ELSE s

Trim(s) == TrimEnd(TrimStart(s))

\* String.prototype.toLowerCase (the ASCII part)
ToLowerCase(s) == [i \in 1..Len(s) |-> IF s[i] \in 65..90 THEN s[i] + 32 ELSE s[i]]

\* String.prototype.includes
Includes(s, t) == \E i \in 0..(Len(s) - Len(t)) : SubSeq(s, i + 1, i + Len(t)) = t

\* String.prototype.endsWith / startsWith
EndsWith(s, t) == Len(s) >= Len(t) /\ SubSeq(s, Len(s) - Len(t) + 1, Len(s)) = t
StartsWith(s, t) == Len(s) >= Len(t) /\ SubSeq(s, 1, Len(t)) = t

\* s < t on strings: lexicographic by code unit
StringLess(s, t) ==
  LET n == IF Len(s) < Len(t) THEN Len(s) ELSE Len(t)
      \* the first index at which s and t differ, n + 1 if one is a prefix of the other
      d == CHOOSE i \in 1..(n + 1) :
             (i = n + 1 \/ s[i] # t[i]) /\ \A j \in 1..(i - 1) : s[j] = t[j]
  IN  IF d = n + 1 THEN Len(s) < Len(t) ELSE s[d] < t[d]

\* String(n) for a non-negative integer
RECURSIVE NumberToString(_)
NumberToString(n) ==
  IF n < 10 THEN <<48 + n>>
  ELSE Append(NumberToString(n \div 10), 48 + (n % 10))

\* Array.prototype.join(sep) on a sequence of texts
RECURSIVE Join(_, _)
Join(parts, sep) ==
  IF parts = << >> THEN Empty
  ELSE IF Len(parts) = 1 THEN parts[1]
  ELSE parts[1] \o sep \o Join(Tail(parts), sep)

\* DoubleQuotes replacing the first double quote only
DoubleQuotesFirstOnly(s) ==
  LET quotes == {i \in 1..Len(s) : s[i] = 34}
  IN  IF quotes = {} THEN s
      ELSE LET first == CHOOSE i \in quotes : \A j \in quotes : i <= j
           IN  SubSeq(s, 1, first) \o <<34>> \o SubSeq(s, first + 1, Len(s))

\* s.replace(/"/g, '""')
RECURSIVE DoubleQuotes(_)
DoubleQuotes(s) ==
  IF s = << >> THEN << >>
  ELSE (IF Head(s) = 34 THEN <<34, 34>> ELSE <<Head(s)>>) \o DoubleQuotes(Tail(s))

\* ------------------------------------------------------------------------
\* Dates: new Date(text).getTime() for the ISO date-only form YYYY-MM-DD;
\* every other text of the model's domain is an invalid date (NaN).
\* ------------------------------------------------------------------------

IsDigit(c) == c \in 48..57

IsIsoDate(s) ==
  /\ Len(s) = 10
  /\ s[5] = 45 /\ s[8] = 45
  /\ \A i \in {1, 2, 3, 4, 6, 7, 9, 10} : IsDigit(s[i])
  /\ ((s[6] - 48) * 10 + (s[7] - 48)) \in 1..12
  /\ ((s[9] - 48) * 10 + (s[10] - 48)) \in 1..31

\* days from 1970-01-01 to the civil date y-m-d (UTC)
DaysFromCivil(y, m, d) ==
  LET yy  == IF m <= 2 THEN y - 1 ELSE y
      era == yy \div 400
      yoe == yy - era * 400
      mp  == (m + 9) % 12
      doy == (153 * mp + 2) \div 5 + d - 1
      doe == yoe * 365 + yoe \div 4 - yoe \div 100 + doy
  IN  era * 146097 + doe - 719468

\* new Date(s): valid = ~isNaN(getTime()), time = getTime()
NewDate(s) ==
  IF s # NULL /\ IsIsoDate(s)
  THEN [valid |-> TRUE,
        time  |-> DaysFromCivil((s[1] - 48) * 1000 + (s[2] - 48) * 100 + (s[3] - 48) * 10 + (s[4] - 48),
                                (s[6] - 48) * 10 + (s[7] - 48),
                                (s[9] - 48) * 10 + (s[10] - 48))]
  ELSE [valid |-> FALSE, time |-> 0]

\* ------------------------------------------------------------------------
\* Source type
\* ------------------------------------------------------------------------

\* getSourceType testing the Texas prefix before the .pdf suffix
getSourceTypePrefixFirst(sourceLink) ==
  IF Falsy(sourceLink) THEN NotSpecified
  ELSE IF StartsWith(sourceLink, TexasPrefix) THEN SrcTexas
  ELSE IF EndsWith(sourceLink, PdfSuffix) THEN SrcPDF
  ELSE SrcWebsite

\* getSourceType of page.tsx
getSourceType(sourceLink) ==
  IF Falsy(sourceLink) THEN NotSpecified
  ELSE IF EndsWith(sourceLink, PdfSuffix) THEN SrcPDF
  ELSE IF StartsWith(sourceLink, TexasPrefix) THEN SrcTexas
  ELSE SrcWebsite

\* ------------------------------------------------------------------------
\* View model: option lists, filter, sort, pagination (page.tsx)
\* ------------------------------------------------------------------------

\* the sortable columns (table header keys)
SortFields == {"project_name", "location", "project_type", "stage",
               "stakeholders", "source_link", "project_value", "date_added"}

SortDirections == {"asc", "desc"}

\* ITEMS_PER_PAGE_OPTIONS
ITEMS_PER_PAGE_OPTIONS == {10, 25, 50, 100}

\* Object.values(project).map((value) => value || "Not specified"), as texts
searchableValues(project) ==
  << IF project.id = 0 THEN NotSpecified ELSE NumberToString(project.id),
     OrNotSpecified(project.project_name),
     OrNotSpecified(project.location),
     OrNotSpecified(project.project_type),
     OrNotSpecified(project.stage),
     OrNotSpecified(project.stakeholders),
     OrNotSpecified(project.project_value),
     OrNotSpecified(project.date_added),
     OrNotSpecified(project.source_link) >>

\* matchesSearch without the toLowerCase of the search term
matchesSearchTermAsTyped(project, term) ==
  Includes(ToLowerCase(Join(searchableValues(project), Blank)), term)

matchesSearch(project, term) ==
  Includes(ToLowerCase(Join(searchableValues(project), Blank)), ToLowerCase(term))

\* PassesFilter comparing the type filter with the project_type as fetched
PassesFilterRawType(project, term, fStage, fType, fSource) ==
  LET projectStage == OrNotSpecified(project.stage)
      projectType == project.project_type
      projectSourceType == getSourceType(project.source_link)
      matchesStage == fStage = Empty \/ projectStage = fStage
      matchesType == fType = Empty \/ projectType = fType
      matchesSource == fSource = Empty \/ projectSourceType = fSource
  IN  matchesSearch(project, term) /\ matchesStage /\ matchesType /\ matchesSource

\* the callback of projects.filter
PassesFilter(project, term, fStage, fType, fSource) ==
  LET projectStage == OrNotSpecified(project.stage)
      projectType == OrNotSpecified(project.project_type)
      projectSourceType == getSourceType(project.source_link)
      matchesStage == fStage = Empty \/ projectStage = fStage
      matchesType == fType = Empty \/ projectType = fType
      matchesSource == fSource = Empty \/ projectSourceType = fSource
  IN  matchesSearch(project, term) /\ matchesStage /\ matchesType /\ matchesSource

\* Array.prototype.filter
RECURSIVE ArrayFilter(_, _, _, _, _)
ArrayFilter(P, term, fStage, fType, fSource) ==
  IF P = << >> THEN << >>
  ELSE LET rest == ArrayFilter(Tail(P), term, fStage, fType, fSource)
       IN  IF PassesFilter(Head(P), term, fStage, fType, fSource)
           THEN <<Head(P)>> \o rest ELSE rest

\* !v || v === "Not specified" || v.toString().trim() === ""  for a text v
TextIsNotSpecified(v) ==
  Falsy(v) \/ v = NotSpecified \/ Trim(v) = Empty

\* the same test for a number (a timestamp): only !v can hold, i.e. v = 0
NumberIsNotSpecified(n) == n = 0

\* the tail of the comparator (lines 165-182) for two numbers
CompareNumbers(x, y, dir) ==
  IF NumberIsNotSpecified(x) /\ NumberIsNotSpecified(y) THEN 0
  ELSE IF NumberIsNotSpecified(x) THEN (IF dir = "asc" THEN 1 ELSE -1)
  ELSE IF NumberIsNotSpecified(y) THEN (IF dir = "asc" THEN -1 ELSE 1)
  ELSE IF x < y THEN (IF dir = "asc" THEN -1 ELSE 1)
  ELSE IF x > y THEN (IF dir = "asc" THEN 1 ELSE -1)
  ELSE 0

\* the tail of the comparator (lines 165-182) for two texts
CompareTexts(x, y, dir) ==
  IF TextIsNotSpecified(x) /\ TextIsNotSpecified(y) THEN 0
  ELSE IF TextIsNotSpecified(x) THEN (IF dir = "asc" THEN 1 ELSE -1)
  ELSE IF TextIsNotSpecified(y) THEN (IF dir = "asc" THEN -1 ELSE 1)
  ELSE LET lx == ToLowerCase(x)
           ly == ToLowerCase(y)
       IN  IF StringLess(lx, ly) THEN (IF dir = "asc" THEN -1 ELSE 1)
           ELSE IF StringLess(ly, lx) THEN (IF dir = "asc" THEN 1 ELSE -1)
           ELSE 0

\* CompareDates with the missing dates placed by direction, as the tail does
CompareDatesByDirection(x, y, dir) ==
  IF TextIsNotSpecified(x) /\ TextIsNotSpecified(y) THEN 0
  ELSE IF TextIsNotSpecified(x) THEN (IF dir = "asc" THEN 1 ELSE -1)
  ELSE IF TextIsNotSpecified(y) THEN (IF dir = "asc" THEN -1 ELSE 1)
  ELSE LET aDate == NewDate(x)
           bDate == NewDate(y)
       IN  IF ~aDate.valid /\ ~bDate.valid THEN 0
           ELSE IF ~aDate.valid THEN 1
           ELSE IF ~bDate.valid THEN -1
           ELSE CompareNumbers(aDate.time, bDate.time, dir)

\* the date branch of the comparator (lines 131-163), falling through to the tail
CompareDates(x, y, dir) ==
  IF TextIsNotSpecified(x) /\ TextIsNotSpecified(y) THEN 0
  ELSE IF TextIsNotSpecified(x) THEN 1
  ELSE IF TextIsNotSpecified(y) THEN -1
  ELSE LET aDate == NewDate(x)
           bDate == NewDate(y)
       IN  IF ~aDate.valid /\ ~bDate.valid THEN 0
           ELSE IF ~aDate.valid THEN 1
           ELSE IF ~bDate.valid THEN -1
           ELSE CompareNumbers(aDate.time, bDate.time, dir)

\* the comparator handed to filtered.sort
Compare(a, b, field, dir) ==
  IF field = "date_added" THEN CompareDates(a[field], b[field], dir)
  ELSE CompareTexts(a[field], b[field], dir)

\* InsertSorted that lets x take the place of an element it compares equal to
InsertSortedOverTies(sorted, x, field, dir) ==
  LET stops == {j \in 1..Len(sorted) : Compare(sorted[j], x, field, dir) <= 0}
      k == IF stops = {} THEN 0 ELSE CHOOSE j \in stops : \A i \in stops : i <= j
  IN  IF k > 0 /\ Compare(sorted[k], x, field, dir) = 0
      THEN SubSeq(sorted, 1, k - 1) \o <<x>> \o SubSeq(sorted, k + 1, Len(sorted))
      ELSE SubSeq(sorted, 1, k) \o <<x>> \o SubSeq(sorted, k + 1, Len(sorted))

\* InsertSorted that puts x before the elements it compares equal to
InsertSortedBeforeTies(sorted, x, field, dir) ==
  LET stops == {j \in 1..Len(sorted) : Compare(sorted[j], x, field, dir) < 0}
      k == IF stops = {} THEN 0 ELSE CHOOSE j \in stops : \A i \in stops : i <= j
  IN  SubSeq(sorted, 1, k) \o <<x>> \o SubSeq(sorted, k + 1, Len(sorted))

\* Array.prototype.sort: a stable sort, here by insertion.  x moves left past
\* the elements that compare greater and stops behind the first that does not.
InsertSorted(sorted, x, field, dir) ==
  LET stops == {j \in 1..Len(sorted) : Compare(sorted[j], x, field, dir) <= 0}
      k == IF stops = {} THEN 0 ELSE CHOOSE j \in stops : \A i \in stops : i <= j
  IN  SubSeq(sorted, 1, k) \o <<x>> \o SubSeq(sorted, k + 1, Len(sorted))

RECURSIVE ArraySort(_, _, _)
ArraySort(P, field, dir) ==
  IF P = << >> THEN << >>
  ELSE InsertSorted(ArraySort(SubSeq(P, 1, Len(P) - 1), field, dir), P[Len(P)], field, dir)

\* memoRun with the sort called on the projects array itself, before the filter
memoRunSortingProjects(P, term, fStage, fType, fSource, field, dir) ==
  LET sorted == ArraySort(P, field, dir)
  IN  [projects |-> sorted, result |-> ArrayFilter(sorted, term, fStage, fType, fSource)]

\* a run of the filteredAndSortedProjects memo on the array P of the projects
\* state: projects.filter builds a new array, filtered.sort reorders that new
\* array in place, and the memo returns it.  projects is what the array of the
\* state holds after the run, result what the memo returns.
memoRun(P, term, fStage, fType, fSource, field, dir) ==
  LET filtered == ArrayFilter(P, term, fStage, fType, fSource)
  IN  [projects |-> P, result |-> ArraySort(filtered, field, dir)]

\* the value of the filteredAndSortedProjects memo
FilterAndSort(P, term, fStage, fType, fSource, field, dir) ==
  memoRun(P, term, fStage, fType, fSource, field, dir).result

\* CeilDiv rounding down
CeilDivRoundingDown(n, size) == n \div size

\* Math.ceil(n / size)
CeilDiv(n, size) == (n + size - 1) \div size

\* Array.prototype.slice(start, end) with 0 <= start <= end
Slice(s, start, end) ==
  LET e == IF end < Len(s) THEN end ELSE Len(s)
  IN  IF start >= e THEN << >> ELSE SubSeq(s, start + 1, e)

\* the distinct texts of a sequence of texts, as a set (new Set(...))
Distinct(texts) == {texts[i] : i \in 1..Len(texts)}

\* Array.from(set).sort(): ascending by code unit
RECURSIVE SortTexts(_)
SortTexts(S) ==
  IF S = {} THEN << >>
  ELSE LET m == CHOOSE x \in S : \A y \in S \ {x} : StringLess(x, y)
       IN  <<m>> \o SortTexts(S \ {m})

StagesOf(P) == SortTexts(Distinct([i \in 1..Len(P) |-> OrNotSpecified(P[i].stage)]))
TypesOf(P) == SortTexts(Distinct([i \in 1..Len(P) |-> OrNotSpecified(P[i].project_type)]))
SourceTypesOf(P) == SortTexts(Distinct([i \in 1..Len(P) |-> getSourceType(P[i].source_link)]))

\* ------------------------------------------------------------------------
\* Export (ExportButton of TableToolbar.tsx)
\* ------------------------------------------------------------------------

\* `"${(v || "Not specified").replace(/"/g, '""')}"`
CsvText(v) == <<34>> \o DoubleQuotes(OrNotSpecified(v)) \o <<34>>

\* "approved", "proposed", "planning", "completed"
Approved == <<97, 112, 112, 114, 111, 118, 101, 100>>
Proposed == <<112, 114, 111, 112, 111, 115, 101, 100>>
Planning == <<112, 108, 97, 110, 110, 105, 110, 103>>
Completed == <<99, 111, 109, 112, 108, 101, 116, 101, 100>>

\* the colour class of the stage badge of a table row; project.stage.toLowerCase()
\* is called on the stage as fetched and throws a TypeError on null
StageBadgeClass(stage) ==
  IF stage = NULL THEN "TypeError"
  ELSE LET lower == ToLowerCase(stage)
       IN  IF Includes(lower, Approved) THEN "green"
           ELSE IF Includes(lower, Proposed) \/ Includes(lower, Planning) THEN "yellow"
           ELSE IF Includes(lower, Completed) THEN "blue"
           ELSE "gray"

\* the stage badge of a table row: its colour class and its text
StageBadge(project) ==
  [class |-> StageBadgeClass(project.stage), text |-> OrNotSpecified(project.stage)]

\* toLocaleDateString() of the Date made from an ISO date text, as an en-US
\* runtime in UTC prints it: month/day/year without leading zeros
toLocaleDateString(s) ==
  NumberToString((s[6] - 48) * 10 + (s[7] - 48)) \o <<47>>
    \o NumberToString((s[9] - 48) * 10 + (s[10] - 48)) \o <<47>>
    \o SubSeq(s, 1, 4)

\* the date column of both exports
ExportDate(v) ==
  IF Falsy(v) \/ Trim(v) = Empty THEN NotSpecified
  ELSE IF ~NewDate(v).valid THEN NotSpecified
  ELSE toLocaleDateString(v)

\* the headers of convertToCSV: ID, Project Name, Location, Project Type, Stage, Stakeholders, Project Value, Source Link, Date Added
CsvHeaders ==
  << <<73, 68>>,
     <<80, 114, 111, 106, 101, 99, 116, 32, 78, 97, 109, 101>>,
     <<76, 111, 99, 97, 116, 105, 111, 110>>,
     <<80, 114, 111, 106, 101, 99, 116, 32, 84, 121, 112, 101>>,
     <<83, 116, 97, 103, 101>>,
     <<83, 116, 97, 107, 101, 104, 111, 108, 100, 101, 114, 115>>,
     <<80, 114, 111, 106, 101, 99, 116, 32, 86, 97, 108, 117, 101>>,
     <<83, 111, 117, 114, 99, 101, 32, 76, 105, 110, 107>>,
     <<68, 97, 116, 101, 32, 65, 100, 100, 101, 100>> >>

\* one data line of convertToCSV
CsvRow(project) ==
  Join(<< NumberToString(project.id), CsvText(project.project_name),
          CsvText(project.location), CsvText(project.project_type),
          CsvText(project.stage), CsvText(project.stakeholders),
          CsvText(project.project_value), CsvText(project.source_link),
          ExportDate(project.date_added) >>, <<44>>)

\* convertToCSV: the header line and the data lines joined by "\n"
convertToCSV(data) ==
  Join(<<Join(CsvHeaders, <<44>>)>> \o [i \in 1..Len(data) |-> CsvRow(data[i])], <<10>>)

\* getSourceType of the export component
exportGetSourceType(sourceLink) ==
  IF Falsy(sourceLink) THEN NotSpecified
  ELSE IF EndsWith(sourceLink, PdfSuffix) THEN SrcPDF
  ELSE IF StartsWith(sourceLink, TexasPrefix) THEN SrcTexas
  ELSE SrcWebsite

\* the <th> cells of exportToPrintableHTML: Project Name, Location, Type, Stage, Stakeholders, Project Value, Source Link, Date Added
HtmlHeaders ==
  << <<80, 114, 111, 106, 101, 99, 116, 32, 78, 97, 109, 101>>,
     <<76, 111, 99, 97, 116, 105, 111, 110>>,
     <<84, 121, 112, 101>>,
     <<83, 116, 97, 103, 101>>,
     <<83, 116, 97, 107, 101, 104, 111, 108, 100, 101, 114, 115>>,
     <<80, 114, 111, 106, 101, 99, 116, 32, 86, 97, 108, 117, 101>>,
     <<83, 111, 117, 114, 99, 101, 32, 76, 105, 110, 107>>,
     <<68, 97, 116, 101, 32, 65, 100, 100, 101, 100>> >>

\* the texts shown in the <td> cells of one row of exportToPrintableHTML
HtmlCells(project) ==
  << NumberToString(project.id),
     OrNotSpecified(project.project_name),
     OrNotSpecified(project.location),
     OrNotSpecified(project.project_type),
     OrNotSpecified(project.stage),
     OrNotSpecified(project.stakeholders),
     OrNotSpecified(project.project_value),
     IF Falsy(project.source_link) THEN NotSpecified
     ELSE exportGetSourceType(project.source_link),
     ExportDate(project.date_added) >>

\* the report of exportToPrintableHTML: the total, the header row, the rows
exportToPrintableHTML(data) ==
  [total   |-> Len(data),
   headers |-> HtmlHeaders,
   rows    |-> [i \in 1..Len(data) |-> HtmlCells(data[i])]]

\* ------------------------------------------------------------------------
\* Project records of the model
\* ------------------------------------------------------------------------

\* "Beta", "alpha", "", " ", "Not specified", null, "beta", "ALPHA"
TextPool ==
  << <<66, 101, 116, 97>>, <<97, 108, 112, 104, 97>>, Empty, Blank,
     NotSpecified, NULL, <<98, 101, 116, 97>>, <<65, 76, 80, 72, 65>> >>

\* "2024-01-05", "", "2024-03-01", " ", "x", null, "1970-01-01",
\* "Not specified", "1969-12-31"
DatePool ==
  << <<50, 48, 50, 52, 45, 48, 49, 45, 48, 53>>, Empty,
     <<50, 48, 50, 52, 45, 48, 51, 45, 48, 49>>, Blank, <<120>>, NULL,
     <<49, 57, 55, 48, 45, 48, 49, 45, 48, 49>>, NotSpecified,
     <<49, 57, 54, 57, 45, 49, 50, 45, 51, 49>> >>

\* "https://www.tdlr.texas.gov/TABS/x.pdf", "https://www.tdlr.texas.gov/TABS/y",
\* "", "http://a/b.pdf", "http://w.io", null, " ", "Not specified"
LinkPool ==
  << TexasPrefix \o <<120>> \o PdfSuffix, TexasPrefix \o <<121>>, Empty,
     <<104, 116, 116, 112, 58, 47, 47, 97, 47, 98>> \o PdfSuffix,
     <<104, 116, 116, 112, 58, 47, 47, 119, 46, 105, 111>>, NULL, Blank,
     NotSpecified >>

Pick(pool, k) == pool[(k % Len(pool)) + 1]

\* a row of the projects table: the columns of the SELECT, in its order
MkProject(id, k) ==
  [id            |-> id,
   project_name  |-> Pick(TextPool, k),
   location      |-> Pick(TextPool, k + 1),
   project_type  |-> Pick(TextPool, k + 2),
   stage         |-> Pick(TextPool, k + 3),
   stakeholders  |-> Pick(TextPool, k + 4),
   project_value |-> Pick(TextPool, k + 5),
   date_added    |-> Pick(DatePool, k),
   source_link   |-> Pick(LinkPool, k)]

\* the lists of rows with ids 1..n whose row i has kind kinds[i]
RowsOf(kinds) == [i \in 1..Len(kinds) |-> MkProject(i, kinds[i])]

\* all sequences over S of length at most n
SeqsUpTo(S, n) == UNION {[1..m -> S] : m \in 0..n}

\* ------------------------------------------------------------------------
\* The projects API route (route.ts)
\* ------------------------------------------------------------------------

\* x < y under ORDER BY on a text column (code-unit collation, NULL largest)
SqlLess(x, y) ==
  IF x = NULL THEN FALSE ELSE IF y = NULL THEN TRUE ELSE StringLess(x, y)

\* ORDER BY date_added DESC holds of a result
IsOrderedByDateDesc(rows) ==
  \A i, j \in 1..Len(rows) : i < j => ~SqlLess(rows[i].date_added, rows[j].date_added)

\* the possible results of the SELECT on a table: its rows ordered by
\* date_added DESC, rows with equal dates in any order
SelectProjects(table) ==
  {rows \in {[i \in 1..Len(table) |-> table[f[i]]] : f \in Permutations(1..Len(table))} :
     IsOrderedByDateDesc(rows)}

\* what the route's error bodies say
ErrUnauthorized == "Unauthorized"
ErrNoDatabaseUrl == "DATABASE_URL environment variable is not set"
ErrDatabase == "Failed to fetch projects from database"

\* GET with the DATABASE_URL check moved before the authentication check
GETEnvFirst(authResult, hasDatabaseUrl, queryThrows, rows) ==
  IF ~hasDatabaseUrl
  THEN [status |-> 500, error |-> ErrNoDatabaseUrl, rows |-> << >>, log |-> <<"env">>]
  ELSE IF authResult = "throws"
  THEN [status |-> 500, error |-> ErrDatabase, rows |-> << >>, log |-> <<"env", "auth">>]
  ELSE IF authResult = "none"
  THEN [status |-> 401, error |-> ErrUnauthorized, rows |-> << >>, log |-> <<"env", "auth">>]
  ELSE IF queryThrows
  THEN [status |-> 500, error |-> ErrDatabase, rows |-> << >>, log |-> <<"env", "auth", "query">>]
  ELSE [status |-> 200, error |-> "", rows |-> rows, log |-> <<"env", "auth", "query">>]

\* GET: authResult is what auth() does ("throws", "none": no userId, "user"),
\* hasDatabaseUrl whether process.env.DATABASE_URL is set, queryThrows whether
\* the query fails, rows what it returns.  log lists the steps performed.
GET(authResult, hasDatabaseUrl, queryThrows, rows) ==
  IF authResult = "throws"
  THEN [status |-> 500, error |-> ErrDatabase, rows |-> << >>, log |-> <<"auth">>]
  ELSE IF authResult = "none"
  THEN [status |-> 401, error |-> ErrUnauthorized, rows |-> << >>, log |-> <<"auth">>]
  ELSE IF ~hasDatabaseUrl
  THEN [status |-> 500, error |-> ErrNoDatabaseUrl, rows |-> << >>, log |-> <<"auth", "env">>]
  ELSE IF queryThrows
  THEN [status |-> 500, error |-> ErrDatabase, rows |-> << >>, log |-> <<"auth", "env", "query">>]
  ELSE [status |-> 200, error |-> "", rows |-> rows, log |-> <<"auth", "env", "query">>]

\* ------------------------------------------------------------------------
\* Bounds and input domains
\* ------------------------------------------------------------------------

\* fetches that may be pending at once
MaxInFlight == 2

\* rows of a table in the sort specification, and the kinds of row it draws
MaxLen == 3
NumKinds == 7

\* rows of a table in the view specification, and the kinds of row it draws
MaxViewLen == 2
NumViewKinds == 4

\* the rows of the long table of the view specification, and the highest
\* page the next button is followed to
BigLen == 12
MaxPage == 4

\* "al"
SearchTerms == {Empty, <<97, 108>>}

\* what is typed into the search box in the search specification:
\* "", "al", "AL", "aa", " ", "TA AL", "not spec", "1", "zz"
TypedTerms ==
  {Empty, <<97, 108>>, <<65, 76>>, <<97, 97>>, Blank, <<84, 65, 32, 65, 76>>,
   <<110, 111, 116, 32, 115, 112, 101, 99>>, <<49>>, <<122, 122>>}

\* rows of a table in the CSV specification, and the kinds of row it draws
MaxCsvLen == 2
NumCsvKinds == 6

\* texts with double quotes and commas:
\* 'Acme, "Bob" Co', '"', 'a""b', null, "", 'x,y'
QuotedPool ==
  << <<65, 99, 109, 101, 44, 32, 34, 66, 111, 98, 34, 32, 67, 111>>,
     <<34>>, <<97, 34, 34, 98>>, NULL, Empty, <<120, 44, 121>> >>

\* a row of the projects table whose texts hold double quotes and commas; its
\* stage is never null
MkQuoted(id, k) ==
  [id            |-> id,
   project_name  |-> Pick(QuotedPool, k + 1),
   location      |-> Pick(QuotedPool, k + 2),
   project_type  |-> Pick(QuotedPool, k + 3),
   stage         |-> OrNotSpecified(Pick(QuotedPool, k + 4)),
   stakeholders  |-> Pick(QuotedPool, k),
   project_value |-> Pick(QuotedPool, k + 5),
   date_added    |-> Pick(DatePool, k),
   source_link   |-> Pick(QuotedPool, k + 3)]

CsvTables ==
  {[i \in 1..Len(k) |-> MkQuoted(i, k[i])] : k \in SeqsUpTo(0..(NumCsvKinds - 1), MaxCsvLen)}

\* the tables the database may hold when the dashboard queries it
DbTables == {RowsOf(<< >>), RowsOf(<<0>>), RowsOf(<<3, 1>>)}

SortTables == {RowsOf(k) : k \in SeqsUpTo(0..(NumKinds - 1), MaxLen)}

\* the view tables name their kinds in ascending order: another order of the
\* same kinds is the same table with the ids renumbered
Ascending(k) == \A i \in 1..(Len(k) - 1) : k[i] <= k[i + 1]

ViewTables ==
  {RowsOf(k) : k \in {s \in SeqsUpTo(0..(NumViewKinds - 1), MaxViewLen) : Ascending(s)}}

\* a table of BigLen rows, already in descending date order: a run of kind 0,
\* a run of kind 3 and one row of kind 1
BigRows ==
  RowsOf([i \in 1..BigLen |-> IF i = BigLen THEN 1 ELSE IF 2 * i <= BigLen THEN 0 ELSE 3])

\* the rows of the table of the page specification: three pages of ten
LongLen == 23

\* a table of LongLen rows in descending date order: a run of kind 0, a run
\* of kind 3, one row of kind 1 and one row of kind 10, which has no stage
\* and the date ""
LongRows ==
  RowsOf([i \in 1..LongLen |-> IF i = LongLen THEN 10
                                ELSE IF i = LongLen - 1 THEN 1
                                ELSE IF 2 * i <= LongLen THEN 0 ELSE 3])

\* ------------------------------------------------------------------------
\* State
\* ------------------------------------------------------------------------

VARIABLES
  isLoaded, isSignedIn,                  \* useUser()
  projects, loading, error, refreshing,  \* data state of Home
  searchTerm, sortField, sortDirection,  \* table state of Home
  currentPage, itemsPerPage,
  filterStage, filterType, filterSource,
  inflight,                              \* the pending calls of fetchProjects, oldest first
  last                                   \* history: the handler that ran last

authVars == <<isLoaded, isSignedIn>>
dataVars == <<projects, loading, error, refreshing>>
sortVars == <<sortField, sortDirection>>
filterVars == <<searchTerm, filterStage, filterType, filterSource>>
pageVars == <<currentPage, itemsPerPage>>
viewVars == <<sortVars, filterVars, pageVars>>
vars == <<authVars, dataVars, viewVars, inflight, last>>

\* error === null
ErrNull == "null"

\* the messages fetchProjects stores: its own Error, the TypeError of a failed
\* fetch, the SyntaxError of response.json()
ErrFailedToFetchProjects == "Failed to fetch projects"
ErrNetwork == "TypeError: Failed to fetch"
ErrJson == "SyntaxError: Unexpected token"

NoResponse == [status |-> 0, error |-> "", rows |-> << >>, log |-> << >>]

\* history record of the handler that ran last; the fetch fields are set by
\* the settling of a fetch only, exported by a download only, field (the
\* header clicked) by handleSort only
LastOf(op) ==
  [op |-> op, isRefresh |-> FALSE, ok |-> FALSE, status |-> 0,
   held |-> << >>, before |-> << >>, overlapped |-> FALSE, exported |-> << >>,
   field |-> ""]

\* ------------------------------------------------------------------------
\* Derived values of a render
\* ------------------------------------------------------------------------

uniqueStages == StagesOf(projects)
uniqueTypes == TypesOf(projects)
uniqueSourceTypes == SourceTypesOf(projects)

filtered == ArrayFilter(projects, searchTerm, filterStage, filterType, filterSource)

filteredAndSortedProjects ==
  FilterAndSort(projects, searchTerm, filterStage, filterType, filterSource,
                sortField, sortDirection)

totalPages == CeilDiv(Len(filteredAndSortedProjects), itemsPerPage)
startIndex == (currentPage - 1) * itemsPerPage
paginatedProjects == Slice(filteredAndSortedProjects, startIndex, startIndex + itemsPerPage)

\* rendering the table rows of the current page throws: the stage badge of
\* one of them does
RowsThrow ==
  /\ \E i \in 1..Len(projects) : projects[i].stage = NULL
  /\ \E i \in 1..Len(paginatedProjects) : StageBadge(paginatedProjects[i]).class = "TypeError"

\* View without the return of the loading skeleton
ViewWithoutSkeleton ==
  IF ~isLoaded THEN "authLoading"
  ELSE IF ~isSignedIn THEN "signIn"
  ELSE IF error # ErrNull THEN "errorPanel"
  ELSE IF RowsThrow THEN "TypeError"
  ELSE "dashboard"

\* View with the loading and error returns moved before the sign-in return
ViewDataFirst ==
  IF ~isLoaded THEN "authLoading"
  ELSE IF loading THEN "skeleton"
  ELSE IF error # ErrNull THEN "errorPanel"
  ELSE IF ~isSignedIn THEN "signIn"
  ELSE IF RowsThrow THEN "TypeError"
  ELSE "dashboard"

\* which of the returns of Home renders; the last one throws when a row does,
\* and Home has no error boundary: nothing of it stays on screen
View ==
  IF ~isLoaded THEN "authLoading"
  ELSE IF ~isSignedIn THEN "signIn"
  ELSE IF loading THEN "skeleton"
  ELSE IF error # ErrNull THEN "errorPanel"
  ELSE IF RowsThrow THEN "TypeError"
  ELSE "dashboard"

\* Home is mounted: its render has not thrown
Mounted == View # "TypeError"

\* the table rows on screen
DisplayedRows == IF View = "dashboard" THEN paginatedProjects ELSE << >>

\* ExportData handing the rows of the current page to ExportButton
ExportDataOfPage == IF View = "dashboard" THEN paginatedProjects ELSE << >>

\* the data handed to ExportButton, which renders nothing for no data
ExportData == IF View = "dashboard" THEN filteredAndSortedProjects ELSE << >>

\* ------------------------------------------------------------------------
\* Fetching (fetchProjects, the effect on isSignedIn, handleRefresh, GET)
\* ------------------------------------------------------------------------

\* startFlags without the isRefresh test: loading is set by every fetch
startFlagsAlwaysLoading(isRefresh, curLoading, curRefreshing) ==
  [loading    |-> TRUE,
   refreshing |-> IF isRefresh THEN TRUE ELSE curRefreshing]

\* the flags fetchProjects sets before its await
startFlags(isRefresh, curLoading, curRefreshing) ==
  [loading    |-> IF isRefresh THEN curLoading ELSE TRUE,
   refreshing |-> IF isRefresh THEN TRUE ELSE curRefreshing]

\* fetchProjects up to its await: the flags, and one more pending call.
\* held and overlapped are history: the list held when the call started, and
\* whether another call was pending at any time since.
fetchProjectsStart(isRefresh) ==
  /\ Len(inflight) < MaxInFlight
  /\ loading' = startFlags(isRefresh, loading, refreshing).loading
  /\ refreshing' = startFlags(isRefresh, loading, refreshing).refreshing
  /\ error' = ErrNull
  /\ UNCHANGED projects
  /\ inflight' =
       Append([j \in 1..Len(inflight) |-> [inflight[j] EXCEPT !.overlapped = TRUE]],
              [isRefresh |-> isRefresh, phase |-> "sent", authResult |-> "",
               response |-> NoResponse, held |-> projects,
               overlapped |-> inflight # << >>])

RemoveAt(s, i) == SubSeq(s, 1, i - 1) \o SubSeq(s, i + 1, Len(s))

\* settleState with the catch block also emptying the list
settleStateClearingList(response, networkError, bodyParses, curProjects, curError) ==
  LET ok == ~networkError /\ response.status = 200 /\ bodyParses
      message == IF networkError THEN ErrNetwork
                 ELSE IF response.status # 200 THEN ErrFailedToFetchProjects
                 ELSE ErrJson
  IN  [ok         |-> ok,
       projects   |-> IF ok THEN response.rows ELSE << >>,
       error      |-> IF ok THEN curError ELSE message,
       loading    |-> FALSE,
       refreshing |-> FALSE]

\* settleState with a 401 answer stored as the route's own error text
settleStateTelling401(response, networkError, bodyParses, curProjects, curError) ==
  LET ok == ~networkError /\ response.status = 200 /\ bodyParses
      message == IF networkError THEN ErrNetwork
                 ELSE IF response.status = 401 THEN response.error
                 ELSE IF response.status # 200 THEN ErrFailedToFetchProjects
                 ELSE ErrJson
  IN  [ok         |-> ok,
       projects   |-> IF ok THEN response.rows ELSE curProjects,
       error      |-> IF ok THEN curError ELSE message,
       loading    |-> FALSE,
       refreshing |-> FALSE]

\* fetchProjects from its await on, as the state it leaves: the try block
\* (throw on a response that is not ok, setProjects of the parsed body), the
\* catch block (setError of the message) and the finally block.
\* networkError: fetch rejects; bodyParses: response.json() resolves.
settleState(response, networkError, bodyParses, curProjects, curError) ==
  LET ok == ~networkError /\ response.status = 200 /\ bodyParses
      message == IF networkError THEN ErrNetwork
                 ELSE IF response.status # 200 THEN ErrFailedToFetchProjects
                 ELSE ErrJson
  IN  [ok         |-> ok,
       projects   |-> IF ok THEN response.rows ELSE curProjects,
       error      |-> IF ok THEN curError ELSE message,
       loading    |-> FALSE,
       refreshing |-> FALSE]

\* pending call i settles
fetchProjectsSettle(i, networkError, bodyParses) ==
  LET call == inflight[i]
      after == settleState(call.response, networkError, bodyParses, projects, error)
  IN  /\ Mounted
      /\ networkError \/ call.phase = "answered"
      /\ projects' = after.projects
      /\ error' = after.error
      /\ loading' = after.loading
      /\ refreshing' = after.refreshing
      /\ inflight' = RemoveAt(inflight, i)
      /\ last' = [LastOf("settle") EXCEPT
                    !.isRefresh = call.isRefresh, !.ok = after.ok,
                    !.status = IF networkError THEN 0 ELSE call.response.status,
                    !.held = call.held, !.before = projects,
                    !.overlapped = call.overlapped]
      /\ UNCHANGED <<authVars, viewVars>>

FetchSettle ==
  \E i \in 1..Len(inflight), networkError \in BOOLEAN, bodyParses \in BOOLEAN :
    fetchProjectsSettle(i, networkError, bodyParses)

\* what the route can answer, with what auth() did: GET for every session,
\* environment, query outcome and table
Answers ==
  {[authResult |-> authResult,
    response |-> GET(authResult, hasDatabaseUrl, queryThrows, rows)] :
     authResult \in {"throws", "none", "user"}, hasDatabaseUrl \in BOOLEAN,
     queryThrows \in BOOLEAN,
     rows \in UNION {SelectProjects(table) : table \in DbTables}}

\* the route handles the request of pending call i
ApiGET ==
  \E i \in 1..Len(inflight), answer \in Answers :
    /\ Mounted
    /\ inflight[i].phase = "sent"
    /\ inflight' = [inflight EXCEPT ![i] =
                      [@ EXCEPT !.phase = "answered", !.authResult = answer.authResult,
                                !.response = answer.response]]
    /\ last' = LastOf("GET")
    /\ UNCHANGED <<authVars, dataVars, viewVars>>

\* useUser() finishes loading; the effect on isSignedIn fetches when signed in
ClerkLoaded ==
  \E signedIn \in BOOLEAN :
    /\ ~isLoaded
    /\ isLoaded' = TRUE
    /\ isSignedIn' = signedIn
    /\ IF signedIn THEN fetchProjectsStart(FALSE)
       ELSE UNCHANGED <<dataVars, inflight>>
    /\ last' = LastOf("ClerkLoaded")
    /\ UNCHANGED viewVars

\* the user signs in through the modal; the effect on isSignedIn fetches
SignIn ==
  /\ isLoaded /\ ~isSignedIn
  /\ isSignedIn' = TRUE
  /\ fetchProjectsStart(FALSE)
  /\ last' = LastOf("SignIn")
  /\ UNCHANGED <<isLoaded, viewVars>>

\* the session ends (UserButton, another tab, expiry); the effect does nothing
SignOut ==
  /\ Mounted
  /\ isLoaded /\ isSignedIn
  /\ isSignedIn' = FALSE
  /\ last' = LastOf("SignOut")
  /\ UNCHANGED <<isLoaded, dataVars, viewVars, inflight>>

\* the Refresh button of TableToolbar, disabled while refreshing
handleRefresh ==
  /\ View = "dashboard"
  /\ ~refreshing
  /\ fetchProjectsStart(TRUE)
  /\ last' = LastOf("handleRefresh")
  /\ UNCHANGED <<authVars, viewVars>>

\* ------------------------------------------------------------------------
\* Table handlers of Home; their controls exist in the dashboard view only
\* ------------------------------------------------------------------------

\* the table and its header are rendered for a non-empty list
TableShown == View = "dashboard" /\ Len(filteredAndSortedProjects) > 0

\* a click on a column header
\* the sort left by a click that always sorts ascending
handleSortStateAlwaysAsc(field, curField, curDirection) ==
  [sortField |-> field, sortDirection |-> "asc"]

\* the sort field and direction that handleSort(field) leaves
handleSortState(field, curField, curDirection) ==
  IF field = curField
  THEN [sortField |-> curField,
        sortDirection |-> IF curDirection = "asc" THEN "desc" ELSE "asc"]
  ELSE [sortField |-> field, sortDirection |-> "asc"]

\* handleSort without setCurrentPage(1)
handleSortKeepingPage(field) ==
  /\ sortField' = handleSortState(field, sortField, sortDirection).sortField
  /\ sortDirection' = handleSortState(field, sortField, sortDirection).sortDirection
  /\ last' = [LastOf("handleSort") EXCEPT !.field = field]
  /\ UNCHANGED <<authVars, dataVars, filterVars, pageVars, inflight>>

handleSort(field) ==
  /\ sortField' = handleSortState(field, sortField, sortDirection).sortField
  /\ sortDirection' = handleSortState(field, sortField, sortDirection).sortDirection
  /\ currentPage' = 1
  /\ last' = [LastOf("handleSort") EXCEPT !.field = field]
  /\ UNCHANGED <<authVars, dataVars, filterVars, itemsPerPage, inflight>>

\* typing in the search box
handleSearch(value) ==
  /\ searchTerm' = value
  /\ currentPage' = 1
  /\ last' = LastOf("handleSearch")
  /\ UNCHANGED <<authVars, dataVars, sortVars, filterStage, filterType, filterSource,
                 itemsPerPage, inflight>>

\* the values a filter select offers: "" and the unique values of the held list
FilterOptions(type) ==
  {Empty} \cup Distinct(IF type = "stage" THEN uniqueStages
                        ELSE IF type = "type" THEN uniqueTypes
                        ELSE uniqueSourceTypes)

\* a choice in one of the three filter selects
handleFilter(type, value) ==
  /\ \/ type = "stage" /\ filterStage' = value /\ UNCHANGED <<filterType, filterSource>>
     \/ type = "type" /\ filterType' = value /\ UNCHANGED <<filterStage, filterSource>>
     \/ type = "source" /\ filterSource' = value /\ UNCHANGED <<filterStage, filterType>>
  /\ currentPage' = 1
  /\ last' = LastOf("handleFilter")
  /\ UNCHANGED <<authVars, dataVars, sortVars, searchTerm, itemsPerPage, inflight>>

\* clearFilters that also puts the sort back to its initial value
clearFiltersAndSort ==
  /\ View = "dashboard"
  /\ \/ searchTerm # Empty \/ filterStage # Empty \/ filterType # Empty \/ filterSource # Empty
     \/ Len(filteredAndSortedProjects) = 0 /\ Len(projects) > 0
  /\ searchTerm' = Empty
  /\ filterStage' = Empty
  /\ filterType' = Empty
  /\ filterSource' = Empty
  /\ currentPage' = 1
  /\ sortField' = "date_added"
  /\ sortDirection' = "desc"
  /\ last' = LastOf("clearFilters")
  /\ UNCHANGED <<authVars, dataVars, itemsPerPage, inflight>>

\* "Clear all filters" is shown for an active filter, "Clear Filters" for an
\* empty result of a non-empty list
clearFilters ==
  /\ View = "dashboard"
  /\ \/ searchTerm # Empty \/ filterStage # Empty \/ filterType # Empty \/ filterSource # Empty
     \/ Len(filteredAndSortedProjects) = 0 /\ Len(projects) > 0
  /\ searchTerm' = Empty
  /\ filterStage' = Empty
  /\ filterType' = Empty
  /\ filterSource' = Empty
  /\ currentPage' = 1
  /\ last' = LastOf("clearFilters")
  /\ UNCHANGED <<authVars, dataVars, sortVars, itemsPerPage, inflight>>

\* the pagination block is rendered under a non-empty table of several pages
PaginationShown ==
  /\ View = "dashboard"
  /\ LET rows == filteredAndSortedProjects
     IN  Len(rows) > 0 /\ CeilDiv(Len(rows), itemsPerPage) > 1

\* the page-size select
setItemsPerPage(size) ==
  /\ size \in ITEMS_PER_PAGE_OPTIONS
  /\ itemsPerPage' = size
  /\ currentPage' = 1
  /\ last' = LastOf("setItemsPerPage")
  /\ UNCHANGED <<authVars, dataVars, sortVars, filterVars, inflight>>

\* the four page buttons: first and previous are disabled on page 1, next and
\* last on page totalPages (pages)
goToPage(button, pages) ==
  /\ \/ button = "first" /\ currentPage # 1 /\ currentPage' = 1
     \/ button = "previous" /\ currentPage # 1 /\ currentPage' = currentPage - 1
     \/ button = "next" /\ currentPage # pages /\ currentPage < MaxPage
        /\ currentPage' = currentPage + 1
     \/ button = "last" /\ currentPage # pages /\ currentPage' = pages
  /\ last' = LastOf("goToPage")
  /\ UNCHANGED <<authVars, dataVars, sortVars, filterVars, itemsPerPage, inflight>>

\* ExportButtonShown without the return for no data
ExportButtonShownForNoData == View = "dashboard"

\* ExportButton renders its button and menu unless data is empty
ExportButtonShown == View = "dashboard" /\ Len(ExportData) > 0

\* the handlers of the three items of the export menu
ExportOps == {"exportToCSV", "exportToJSON", "exportToPrintableHTML"}

\* an item of the export menu is chosen: the records of data are downloaded
\* in its format; isExporting and showDropdown end as they were before the
\* menu was opened
downloadFile(op) ==
  /\ last' = [LastOf(op) EXCEPT !.exported = ExportData]
  /\ UNCHANGED <<authVars, dataVars, viewVars, inflight>>

\* "Try Again" of the error panel: window.location.reload()
TryAgain ==
  /\ View = "errorPanel"
  /\ isLoaded' = FALSE /\ isSignedIn' = FALSE
  /\ projects' = << >> /\ loading' = TRUE /\ error' = ErrNull /\ refreshing' = FALSE
  /\ searchTerm' = Empty /\ sortField' = "date_added" /\ sortDirection' = "desc"
  /\ currentPage' = 1 /\ itemsPerPage' = 25
  /\ filterStage' = Empty /\ filterType' = Empty /\ filterSource' = Empty
  /\ inflight' = << >>
  /\ last' = LastOf("TryAgain")

\* ------------------------------------------------------------------------
\* Specifications
\* ------------------------------------------------------------------------

\* the useState initial values of the table state
InitTable ==
  /\ searchTerm = Empty /\ sortField = "date_added" /\ sortDirection = "desc"
  /\ currentPage = 1 /\ itemsPerPage = 25
  /\ filterStage = Empty /\ filterType = Empty /\ filterSource = Empty

\* Home as mounted
Init ==
  /\ isLoaded = FALSE /\ isSignedIn = FALSE
  /\ projects = << >> /\ loading = TRUE /\ error = ErrNull /\ refreshing = FALSE
  /\ InitTable
  /\ inflight = << >>
  /\ last = LastOf("mount")

\* Home of a signed-in user showing the dashboard for the fetched rows
Showing(rows) ==
  /\ isLoaded = TRUE /\ isSignedIn = TRUE
  /\ projects = rows /\ loading = FALSE /\ error = ErrNull /\ refreshing = FALSE
  /\ inflight = << >>
  /\ last = LastOf("loaded")

\* ... after the first fetch succeeded with the rows
Loaded(rows) == Showing(rows) /\ InitTable

\* ... after the page size was set to 10 and a refresh then brought the rows
Reloaded(rows) ==
  /\ Showing(rows)
  /\ searchTerm = Empty /\ sortField = "date_added" /\ sortDirection = "desc"
  /\ currentPage = 1 /\ itemsPerPage = 10
  /\ filterStage = Empty /\ filterType = Empty /\ filterSource = Empty

Next ==
  \/ ClerkLoaded
  \/ SignIn
  \/ SignOut
  \/ handleRefresh
  \/ ApiGET
  \/ FetchSettle
  \/ TryAgain

Spec == Init /\ [][Next]_vars

\* the user's inputs to the table handlers
SortClick == TableShown /\ \E field \in SortFields : handleSort(field)

SearchInput == View = "dashboard" /\ \E value \in SearchTerms : handleSearch(value)

FilterSelect ==
  /\ View = "dashboard"
  /\ \E type \in {"stage", "type", "source"} : \E value \in FilterOptions(type) :
       handleFilter(type, value)

PageSizeSelect == PaginationShown /\ \E size \in ITEMS_PER_PAGE_OPTIONS : setItemsPerPage(size)

PageClick ==
  LET pages == totalPages
  IN  /\ View = "dashboard" /\ pages > 1
      /\ \E button \in {"first", "previous", "next", "last"} : goToPage(button, pages)

ExportClick == ExportButtonShown /\ \E op \in ExportOps : downloadFile(op)

\* the search applied to fetched lists and the exports of what it leaves
SearchTyping == View = "dashboard" /\ \E value \in TypedTerms : handleSearch(value)

InitSearch == \E table \in ViewTables : \E rows \in SelectProjects(table) : Loaded(rows)

NextSearch ==
  \/ SearchTyping
  \/ ExportClick

SpecSearch == InitSearch /\ [][NextSearch]_vars

\* the pages of a long fetched list: filters, page size and page buttons
InitPage == \E rows \in {r \in {LongRows} : IsOrderedByDateDesc(r)} : Reloaded(rows)

NextPage ==
  \/ FilterSelect
  \/ PageSizeSelect
  \/ PageClick

SpecPage == InitPage /\ [][NextPage]_vars

\* the filter predicate on the short fetched lists: search, filters and sort
InitFilter == \E table \in ViewTables : \E rows \in SelectProjects(table) : Loaded(rows)

NextFilter ==
  \/ SearchInput
  \/ FilterSelect
  \/ SortClick

SpecFilter == InitFilter /\ [][NextFilter]_vars

\* the long fetched list under filters, sort headers, page sizes and page
\* buttons: what the table shows of it and what the exports are handed
InitLongTable == \E rows \in {r \in {BigRows} : IsOrderedByDateDesc(r)} : Reloaded(rows)

NextLongTable ==
  \/ FilterSelect
  \/ SortClick
  \/ PageSizeSelect
  \/ PageClick

SpecLongTable == InitLongTable /\ [][NextLongTable]_vars

\* the exports of fetched lists whose texts hold double quotes and commas,
\* in every sort order
InitCsv == \E table \in CsvTables : \E rows \in SelectProjects(table) : Loaded(rows)

NextCsv == SortClick

SpecCsv == InitCsv /\ [][NextCsv]_vars

\* the long fetched list, paged and filtered, and then replaced by what a
\* refresh brings
InitRefresh == \E rows \in {r \in {BigRows} : IsOrderedByDateDesc(r)} : Reloaded(rows)

NextRefresh ==
  \/ FilterSelect
  \/ PageClick
  \/ handleRefresh
  \/ ApiGET
  \/ FetchSettle

SpecRefresh == InitRefresh /\ [][NextRefresh]_vars

\* the sort applied to every fetched list: sort headers only
InitSort == \E table \in SortTables : \E rows \in SelectProjects(table) : Loaded(rows)

NextSort == SortClick

SpecSort == InitSort /\ [][NextSort]_vars

\* the filters and the sort applied to fetched lists
InitView ==
  \/ \E table \in ViewTables : \E rows \in SelectProjects(table) : Loaded(rows)
  \/ \E rows \in {r \in {BigRows} : IsOrderedByDateDesc(r)} : Reloaded(rows)

NextView ==
  \/ SortClick
  \/ SearchInput
  \/ FilterSelect
  \/ clearFilters
  \/ PageSizeSelect
  \/ PageClick

SpecView == InitView /\ [][NextView]_vars

\* ------------------------------------------------------------------------
\* Claims
\* ------------------------------------------------------------------------

\* a value that is missing: absent, empty, whitespace-only or "Not specified"
MissingValue(v) == v = NULL \/ v = Empty \/ Trim(v) = Empty \/ v = NotSpecified

\* a date text that parses
DateParseable(v) == v # NULL /\ NewDate(v).valid

\* present in the sense of the missing-last rule: a date must also parse
PresentValue(v, field) ==
  IF field = "date_added" THEN ~MissingValue(v) /\ DateParseable(v) ELSE ~MissingValue(v)

\* C1: sorted by any field in any direction, every record whose value for the
\* field is present comes before every record whose value for it is missing.
C1_MissingLast ==
  LET rows == filteredAndSortedProjects
  IN  \A i, j \in 1..Len(rows) :
        PresentValue(rows[i][sortField], sortField) /\ MissingValue(rows[j][sortField])
          => i < j

\* sorted by location descending after a header click, a present and a
\* missing location in the list
C1_SortedDescending ==
  /\ last.op = "handleSort" /\ sortField = "location" /\ sortDirection = "desc"
  /\ \E i, j \in 1..Len(filteredAndSortedProjects) :
       /\ ~MissingValue(filteredAndSortedProjects[i].location)
       /\ MissingValue(filteredAndSortedProjects[j].location)

\* how many times x occurs in the list
Count(rows, x) == Cardinality({i \in 1..Len(rows) : rows[i] = x})

\* the list is a run of consecutive elements of rows
ContiguousIn(part, rows) ==
  \E start \in 0..Len(rows) :
    /\ start + Len(part) <= Len(rows)
    /\ part = SubSeq(rows, start + 1, start + Len(part))

\* C2: the filtered and sorted list holds exactly the fetched projects that
\* pass the search and the three filters, each as often as it was fetched, and
\* nothing else; the rows of the page are consecutive rows of that list.
C2_ExactlyThePassing ==
  LET rows == filteredAndSortedProjects
  IN  /\ \A i \in 1..Len(projects) :
           Count(rows, projects[i]) =
             IF PassesFilter(projects[i], searchTerm, filterStage, filterType, filterSource)
             THEN Count(projects, projects[i]) ELSE 0
      /\ \A i \in 1..Len(rows) : Count(projects, rows[i]) > 0
      /\ ContiguousIn(paginatedProjects, rows)

\* the second page of a list that a filter shortened and a header click
\* sorted by a field with equal values
C2_Witness ==
  /\ filterType = NotSpecified /\ sortField = "stakeholders"
  /\ 0 < Len(filteredAndSortedProjects)
  /\ Len(filteredAndSortedProjects) < Len(projects)
  /\ currentPage = 2 /\ Len(paginatedProjects) > 0
  /\ Len(paginatedProjects) < Len(filteredAndSortedProjects)

\* a text that is not empty and consists of white space only
WhitespaceOnly(v) == v # NULL /\ v # Empty /\ Trim(v) = Empty

\* the list of filter options has "Not specified" and no whitespace-only text
OptionsNameNotSpecified(options) ==
  /\ NotSpecified \in Distinct(options)
  /\ \A k \in 1..Len(options) : ~WhitespaceOnly(options[k])

\* C3: an absent, empty or whitespace-only stage or type counts as
\* "Not specified" everywhere: the filter "Not specified" lets the project
\* pass, its entry in the filter options and its field in the export is
\* "Not specified", and the sort takes it for missing.
C3_WhitespaceIsNotSpecified ==
  \A i \in 1..Len(projects) :
    LET p == projects[i]
    IN  /\ p.stage = NULL \/ p.stage = Empty \/ WhitespaceOnly(p.stage) =>
             /\ PassesFilter(p, Empty, NotSpecified, Empty, Empty)
             /\ OptionsNameNotSpecified(uniqueStages)
             /\ CsvText(p.stage) = <<34>> \o NotSpecified \o <<34>>
             /\ TextIsNotSpecified(p.stage)
        /\ p.project_type = NULL \/ p.project_type = Empty \/ WhitespaceOnly(p.project_type) =>
             /\ PassesFilter(p, Empty, Empty, NotSpecified, Empty)
             /\ OptionsNameNotSpecified(uniqueTypes)
             /\ CsvText(p.project_type) = <<34>> \o NotSpecified \o <<34>>
             /\ TextIsNotSpecified(p.project_type)

\* a whitespace-only stage in the list while the stage filter is
\* "Not specified"
C3_WhitespaceStageFiltered ==
  /\ filterStage = NotSpecified
  /\ \E i \in 1..Len(projects) : WhitespaceOnly(projects[i].stage)

\* C4: a request without an authenticated user is answered 401
\* "Unauthorized" with no project record and without a query; rows are
\* returned only to an authenticated user; the authentication check is the
\* first step of the handler, before the configuration check and the query.
C4_OnlySignedInUsers ==
  \A i \in 1..Len(inflight) :
    LET call == inflight[i]
        answer == call.response
    IN  call.phase = "answered" =>
          /\ call.authResult = "none" =>
               /\ answer.status = 401 /\ answer.error = ErrUnauthorized
               /\ answer.rows = << >>
               /\ \A k \in 1..Len(answer.log) : answer.log[k] # "query"
          /\ call.authResult # "user" =>
               /\ answer.status # 200 /\ answer.rows = << >>
               /\ \A k \in 1..Len(answer.log) : answer.log[k] = "auth"
          /\ answer.log[1] = "auth"

\* a request without a user was answered while the table holds rows
C4_Witness ==
  \E i \in 1..Len(inflight) :
    /\ inflight[i].phase = "answered" /\ inflight[i].authResult = "none"
    /\ inflight[i].response.status = 401
    /\ last.op = "GET"

\* the lists a response can carry
ResponseLists == UNION {SelectProjects(table) : table \in DbTables}

\* the texts a failed fetch stores in error
FailureTexts == {ErrFailedToFetchProjects, ErrNetwork, ErrJson}

\* C5 as stated: after a refresh fails, the list is the one held when the
\* refresh started.
C5_ListHeldAtStart ==
  last.op = "settle" /\ last.isRefresh /\ ~last.ok => projects = last.held

\* C5: a refresh that fails leaves the list as it was just before the failure
\* was handled, which is the list held when the refresh started if no other
\* fetch was in flight meanwhile; the failure is stored in error only; the
\* list is always empty or the whole list of one response.
C5_FailedRefreshKeepsList ==
  /\ last.op = "settle" /\ last.isRefresh /\ ~last.ok =>
       /\ projects = last.before
       /\ error \in FailureTexts
       /\ ~last.overlapped => projects = last.held
  /\ projects = << >> \/ projects \in ResponseLists

\* a refresh alone in flight failed while rows were held
C5_Witness ==
  /\ last.op = "settle" /\ last.isRefresh /\ ~last.ok /\ ~last.overlapped
  /\ last.held # << >> /\ projects = last.held

\* the error a fetch answered with the status leaves
ErrorAfter(status) ==
  settleState([NoResponse EXCEPT !.status = status], FALSE, TRUE, << >>, ErrNull).error

\* C6 as stated: a fetch answered 401 leaves a client state other than a
\* fetch failing for another reason does, and is shown as the sign-in prompt,
\* not as the error panel.
C6_UnauthorizedDistinguished ==
  last.op = "settle" /\ last.status = 401 =>
    /\ error # ErrorAfter(500)
    /\ View # "errorPanel"

\* C6: the client handles a 401 answer as it handles every answer that is not
\* OK: the same text is stored in error and the list is kept, and a signed-in
\* user sees the error panel; the sign-in prompt is shown exactly when the
\* identity provider has loaded and reports no signed-in user.
C6_UnauthorizedLikeAnyFailure ==
  /\ last.op = "settle" /\ last.status = 401 =>
       /\ error = ErrorAfter(500) /\ error = ErrFailedToFetchProjects
       /\ projects = last.before
       /\ isSignedIn => View = "errorPanel"
  /\ View = "signIn" <=> isLoaded /\ ~isSignedIn

\* a fetch of a signed-in user was answered 401
C6_Witness ==
  last.op = "settle" /\ last.status = 401 /\ isSignedIn /\ View = "errorPanel"

\* C7 as stated: while a refresh is in flight, loading is false, refreshing
\* is true and the list is the one held when the refresh started.
C7_RefreshKeepsView ==
  \A i \in 1..Len(inflight) :
    inflight[i].isRefresh =>
      ~loading /\ refreshing /\ projects = inflight[i].held

\* C7: while a refresh is in flight and no other fetch has been in flight
\* with it, loading is false, refreshing is true and the list is the one held
\* when the refresh started, so a signed-in user keeps seeing the rows; the
\* refresh handler itself never sets loading.
C7_LoneRefreshKeepsView ==
  /\ \A i \in 1..Len(inflight) :
       inflight[i].isRefresh /\ ~inflight[i].overlapped =>
         /\ ~loading /\ refreshing /\ projects = inflight[i].held
         /\ isSignedIn => View = "dashboard" /\ DisplayedRows = paginatedProjects
  /\ last.op = "handleRefresh" => ~loading /\ refreshing

\* a refresh alone in flight, answered, rows still shown
C7_Witness ==
  \E i \in 1..Len(inflight) :
    /\ inflight[i].isRefresh /\ ~inflight[i].overlapped
    /\ inflight[i].phase = "answered" /\ inflight[i].response.status = 200
    /\ inflight[i].held # << >> /\ inflight[i].response.rows # inflight[i].held
    /\ View = "dashboard" /\ DisplayedRows # << >>

\* C8: before the identity provider has loaded only the loading view is
\* rendered; once loaded without a signed-in user only the sign-in prompt;
\* the skeleton, the error panel, the dashboard, its rows and the export
\* data are rendered for a signed-in user only.
C8_GatedByAuth ==
  /\ ~isLoaded => View = "authLoading"
  /\ isLoaded /\ ~isSignedIn => View = "signIn"
  /\ View \in {"skeleton", "errorPanel", "dashboard"} => isLoaded /\ isSignedIn
  /\ DisplayedRows # << >> \/ ExportData # << >> => isLoaded /\ isSignedIn

\* a user signed out while rows are held and a fetch is loading
C8_Witness ==
  /\ isLoaded /\ ~isSignedIn
  /\ projects # << >> /\ loading
  /\ last.op = "SignOut"

\* C9: clearFilters empties the search term and the three filters and sets
\* the page to 1; it leaves the sort field, the sort direction, the page size
\* and the fetched list as they were.
C9_ClearFiltersFrame ==
  [][last'.op = "clearFilters" =>
       /\ searchTerm' = Empty /\ filterStage' = Empty
       /\ filterType' = Empty /\ filterSource' = Empty
       /\ currentPage' = 1
       /\ UNCHANGED <<sortField, sortDirection, itemsPerPage, projects>>]_vars

\* filters cleared while the sort and the page size are not the initial ones
C9_Witness ==
  /\ last.op = "clearFilters"
  /\ sortField = "stage" /\ sortDirection = "asc" /\ itemsPerPage = 50
  /\ searchTerm = Empty /\ filterStage = Empty /\ currentPage = 1

\* the scenario of C10: dates "2024-01-05", "", "2024-03-01"
C10_Scenario == RowsOf(<<0, 1, 2>>)

\* C10: sorted by date_added, in either direction, every record whose date is
\* empty, whitespace-only or unparseable comes after every record whose date
\* parses; the scenario sorted desc gives 2024-03-01, 2024-01-05, "".
C10_UnparseableDatesLast ==
  /\ sortField = "date_added" =>
       LET rows == filteredAndSortedProjects
       IN  \A i, j \in 1..Len(rows) :
             DateParseable(rows[i].date_added) /\ ~DateParseable(rows[j].date_added)
               => i < j
  /\ LET sorted == ArraySort(C10_Scenario, "date_added", "desc")
     IN  [i \in 1..3 |-> sorted[i].date_added] = <<DatePool[3], DatePool[1], Empty>>

\* sorted by date ascending after a header click, with a date that parses, an
\* empty one and an unparseable one in the list
C10_Witness ==
  /\ last.op = "handleSort" /\ sortField = "date_added" /\ sortDirection = "asc"
  /\ \E i, j, k \in 1..Len(filteredAndSortedProjects) :
       /\ DateParseable(filteredAndSortedProjects[i].date_added)
       /\ filteredAndSortedProjects[j].date_added = Empty
       /\ filteredAndSortedProjects[k].date_added = DatePool[5]

\* the parsed timestamp of a date that parses
TimeOf(v) == NewDate(v).time

\* C11: sorted by date_added, two records whose dates parse are in the order
\* of their timestamps, ascending for asc and descending for desc, whatever
\* the timestamps are, the timestamp 0 of 1970-01-01 included.
C11_ParseableByTimestamp ==
  sortField = "date_added" =>
    LET rows == filteredAndSortedProjects
    IN  \A i, j \in 1..Len(rows) :
          i < j /\ DateParseable(rows[i].date_added) /\ DateParseable(rows[j].date_added) =>
            IF sortDirection = "asc"
            THEN TimeOf(rows[i].date_added) <= TimeOf(rows[j].date_added)
            ELSE TimeOf(rows[i].date_added) >= TimeOf(rows[j].date_added)

\* where the record is in the fetched list
PositionIn(rows, x) == CHOOSE k \in 1..Len(rows) : rows[k] = x

SentinelSubstituted(v) == IF v = NULL \/ v = Empty THEN NotSpecified ELSE v

\* C13: a fetched project is in the filtered list if and only if the search
\* term is empty or matches it, and each of the stage, type and source filter
\* is empty or equals the project's stage, type (with "Not specified" for an
\* absent one) and derived source type; sort, page and page size play no part.
C13_FilterPredicate ==
  LET rows == filteredAndSortedProjects
  IN  \A i \in 1..Len(projects) :
        LET p == projects[i]
        IN  Count(rows, p) > 0 <=>
              /\ searchTerm = Empty \/ matchesSearch(p, searchTerm)
              /\ filterStage = Empty \/ filterStage = SentinelSubstituted(p.stage)
              /\ filterType = Empty \/ filterType = SentinelSubstituted(p.project_type)
              /\ filterSource = Empty \/ filterSource = getSourceType(p.source_link)

\* a search and the type filter "Not specified" at work under a sort by
\* another field: a project with an empty type passes, another one does not
C13_Witness ==
  /\ searchTerm # Empty /\ filterType = NotSpecified /\ sortField # "date_added"
  /\ \E i \in 1..Len(filteredAndSortedProjects) :
       filteredAndSortedProjects[i].project_type = Empty
  /\ Len(filteredAndSortedProjects) < Len(projects)

\* the nine field values of a project as texts, in the order of the columns,
\* "Not specified" for an absent value
FieldTexts(p) ==
  << NumberToString(p.id), SentinelSubstituted(p.project_name),
     SentinelSubstituted(p.location), SentinelSubstituted(p.project_type),
     SentinelSubstituted(p.stage), SentinelSubstituted(p.stakeholders),
     SentinelSubstituted(p.project_value), SentinelSubstituted(p.date_added),
     SentinelSubstituted(p.source_link) >>

\* t occurs in text
SubstringOf(t, text) ==
  \E k \in 0..(Len(text) - Len(t)) : SubSeq(text, k + 1, k + Len(t)) = t

\* a project named "Road" whose stakeholders are "Acme Corp"
AcmeProject ==
  [id |-> 7, project_name |-> <<82, 111, 97, 100>>, location |-> NULL,
   project_type |-> Empty, stage |-> <<79, 112, 101, 110>>,
   stakeholders |-> <<65, 99, 109, 101, 32, 67, 111, 114, 112>>,
   project_value |-> NULL, date_added |-> DatePool[1], source_link |-> Empty]

\* "acme"
AcmeTerm == <<97, 99, 109, 101>>

\* C14 as stated: a project matches the search term if and only if the
\* lower-cased term occurs in the lower-cased concatenation of its field
\* values.
C14_MatchesConcatenation ==
  \A i \in 1..Len(projects) :
    Count(filteredAndSortedProjects, projects[i]) > 0 <=>
      SubstringOf(ToLowerCase(searchTerm),
                  ToLowerCase(Join(FieldTexts(projects[i]), Empty)))

\* C14: a project matches the search term if and only if the lower-cased
\* term occurs in the lower-cased text made of its nine field values, in the
\* order of the columns, "Not specified" for an absent one, joined by single
\* spaces; "acme" matches a project with "Acme" in stakeholders only, and
\* the empty term matches every project.
C14_MatchesJoinedFields ==
  /\ \A i \in 1..Len(projects) :
       Count(filteredAndSortedProjects, projects[i]) > 0 <=>
         SubstringOf(ToLowerCase(searchTerm),
                     ToLowerCase(Join(FieldTexts(projects[i]), Blank)))
  /\ searchTerm = Empty => Len(filteredAndSortedProjects) = Len(projects)
  /\ matchesSearch(AcmeProject, AcmeTerm)
  /\ ~matchesSearch([AcmeProject EXCEPT !.stakeholders = NULL], AcmeTerm)

\* the upper-case term "TA AL" typed into the search box matches a project
\* named "Beta" located in "alpha" and leaves another project out
C14_Witness ==
  /\ last.op = "handleSearch" /\ searchTerm = <<84, 65, 32, 65, 76>>
  /\ 0 < Len(filteredAndSortedProjects)
  /\ Len(filteredAndSortedProjects) < Len(projects)

\* the elements of rows at the offsets from (page - 1) * size up to, and not
\* including, page * size, as far as rows has them
RowsOfPage(rows, page, size) ==
  LET first == (page - 1) * size
      past == IF page * size < Len(rows) THEN page * size ELSE Len(rows)
  IN  [k \in 1..(IF past > first THEN past - first ELSE 0) |-> rows[first + k]]

\* the pages 1..n of rows, one after the other
RECURSIVE PagesUpTo(_, _, _)
PagesUpTo(rows, n, size) ==
  IF n = 0 THEN << >> ELSE PagesUpTo(rows, n - 1, size) \o RowsOfPage(rows, n, size)

\* C15: totalPages is the filtered count divided by the page size, rounded
\* up, and 0 for an empty list; the rows of the page are those at the offsets
\* (page-1)*pageSize up to page*pageSize, clipped to the list; every page in
\* 1..totalPages is non-empty and has at most pageSize rows, and the pages
\* together are the whole list; 60 records at page size 25 are 3 pages, the
\* third holding the offsets 50..59.
C15_Pagination ==
  LET rows == filteredAndSortedProjects
      pages == totalPages
  IN  /\ pages * itemsPerPage >= Len(rows)
      /\ (pages - 1) * itemsPerPage < Len(rows)
      /\ Len(rows) = 0 => pages = 0
      /\ paginatedProjects = RowsOfPage(rows, currentPage, itemsPerPage)
      /\ \A page \in 1..pages :
           LET shown == Slice(rows, (page - 1) * itemsPerPage, page * itemsPerPage)
           IN  0 < Len(shown) /\ Len(shown) <= itemsPerPage
               /\ shown = RowsOfPage(rows, page, itemsPerPage)
      /\ PagesUpTo(rows, pages, itemsPerPage) = rows
      /\ CeilDiv(60, 25) = 3
      /\ Slice([i \in 1..60 |-> i], (3 - 1) * 25, 3 * 25) = [k \in 1..10 |-> 50 + k]

\* the third page of a list of three pages whose last page is not full
C15_Witness ==
  /\ last.op = "goToPage" /\ currentPage = 3 /\ totalPages = 3
  /\ 0 < Len(paginatedProjects) /\ Len(paginatedProjects) < itemsPerPage
  /\ filterType # Empty

\* no project passes the filters: no page
C15_WitnessEmpty == Len(projects) > 0 /\ totalPages = 0

\* ------------------------------------------------------------------------
\* the lines of a text: its parts between the line feeds
LineBreaks(text) == {i \in 1..Len(text) : text[i] = 10}

LinesOf(text) ==
  LET breaks == LineBreaks(text)
      n == Cardinality(breaks)
      at == [k \in 0..(n + 1) |->
               IF k = 0 THEN 0
               ELSE IF k = n + 1 THEN Len(text) + 1
               ELSE CHOOSE b \in breaks : Cardinality({c \in breaks : c < b}) = k - 1]
  IN  [k \in 1..(n + 1) |-> SubSeq(text, at[k - 1] + 1, at[k] - 1)]

\* C16: the data handed to the exports is the whole filtered and sorted list,
\* whatever the current page and the page size: as many records as pass the
\* filters, in the sorted order; the CSV text is the header line followed by
\* one line per record, in that order, and the HTML report has one row per
\* record
C16_ExportsWholeList ==
  View = "dashboard" =>
    LET data == ExportData
        lines == LinesOf(convertToCSV(data))
        report == exportToPrintableHTML(data)
    IN /\ Len(data) = Cardinality({i \in 1..Len(projects) :
              PassesFilter(projects[i], searchTerm, filterStage, filterType, filterSource)})
       /\ data = ArraySort(filtered, sortField, sortDirection)
       /\ Len(lines) = 1 + Len(data)
       /\ lines[1] = Join(CsvHeaders, <<44>>)
       /\ \A i \in 1..Len(data) : lines[i + 1] = CsvRow(data[i])
       /\ report.total = Len(data)
       /\ \A i \in 1..Len(data) : report.rows[i] = HtmlCells(data[i])

\* the second page of a filtered list sorted by a column: more records are
\* exported than the page shows
C16_Witness ==
  /\ View = "dashboard" /\ currentPage = 2 /\ filterType # Empty
  /\ sortField # "date_added"
  /\ Len(paginatedProjects) > 0
  /\ Len(ExportData) > Len(paginatedProjects)

NoStage(project) == project.stage = NULL

\* the dashboard return of Home is the one that renders
DashboardRenders == isLoaded /\ isSignedIn /\ ~loading /\ error = ErrNull

\* filtering, sorting and the exports treat a project without a stage as one
\* whose stage is "Not specified"
NoStageFilteredSortedExported ==
  LET data == filteredAndSortedProjects
  IN  /\ \A i \in 1..Len(projects) :
           NoStage(projects[i]) =>
             (PassesFilter(projects[i], searchTerm, filterStage, filterType, filterSource)
                <=> /\ PassesFilter(projects[i], searchTerm, Empty, filterType, filterSource)
                    /\ filterStage \in {Empty, NotSpecified})
      /\ \A i, j \in 1..Len(data) :
           NoStage(data[i]) /\ data[j].stage = NotSpecified =>
             Compare(data[i], data[j], "stage", sortDirection) = 0
      /\ \A i \in 1..Len(data) :
           NoStage(data[i]) =>
             /\ HtmlCells(data[i])[5] = NotSpecified
             /\ CsvText(data[i].stage) = <<34>> \o NotSpecified \o <<34>>

\* C18: a fetched project without a stage never makes the dashboard fail: it
\* is filtered, sorted, shown in its row with a stage badge reading
\* "Not specified" and exported with "Not specified" as its stage, and no
\* step raises an error
C18_MissingFieldsNeverFail ==
  DashboardRenders =>
    /\ NoStageFilteredSortedExported
    /\ \A i \in 1..Len(paginatedProjects) :
         /\ StageBadge(paginatedProjects[i]).class # "TypeError"
         /\ NoStage(paginatedProjects[i]) =>
              StageBadge(paginatedProjects[i]).text = NotSpecified
    /\ View = "dashboard"

\* what holds instead: everything but the row display treats the missing
\* stage as "Not specified", and Home renders its dashboard exactly when no
\* row of the current page lacks a stage
C18_OnlyTheBadgeFails ==
  DashboardRenders =>
    /\ NoStageFilteredSortedExported
    /\ View = "dashboard" <=> \A i \in 1..Len(paginatedProjects) : ~NoStage(paginatedProjects[i])
    /\ View # "dashboard" => View = "TypeError" /\ DisplayedRows = << >>

\* the last page of the long list, which holds the row without a stage
C18_NoStageRowOnPage ==
  /\ last.op = "goToPage" /\ currentPage = 3
  /\ \E i \in 1..Len(paginatedProjects) : NoStage(paginatedProjects[i])

\* ------------------------------------------------------------------------
\* the link is absent or has no character
EmptyLink(link) == link = NULL \/ Len(link) = 0

\* the last characters of the link are ".pdf"
PdfLink(link) ==
  Len(link) >= 4 /\ [i \in 1..4 |-> link[Len(link) - 4 + i]] = <<46, 112, 100, 102>>

\* the first characters of the link are "https://www.tdlr.texas.gov/TABS/"
TexasLink(link) ==
  Len(link) >= Len(TexasPrefix) /\ \A i \in 1..Len(TexasPrefix) : link[i] = TexasPrefix[i]

HtmlFieldValues(project) ==
  << OrNotSpecified(project.project_name),
     OrNotSpecified(project.location),
     OrNotSpecified(project.project_type),
     OrNotSpecified(project.stage),
     OrNotSpecified(project.stakeholders),
     OrNotSpecified(project.project_value),
     exportGetSourceType(project.source_link),
     ExportDate(project.date_added) >>

\* C20: every data row of the HTML report has one cell per header column, in
\* the order Project Name, Location, Type, Stage, Stakeholders, Project Value,
\* Source Link, Date Added, so that each cell shows the record's value for the
\* header above it
C20_HtmlCellsUnderHeaders ==
  View = "dashboard" =>
    LET data == ExportData
        report == exportToPrintableHTML(data)
    IN  /\ Len(report.headers) = 8
        /\ \A i \in 1..Len(data) :
             /\ Len(report.rows[i]) = Len(report.headers)
             /\ \A c \in 1..Len(report.headers) :
                  c <= Len(report.rows[i]) => report.rows[i][c] = HtmlFieldValues(data[i])[c]

\* what holds instead: every data row has nine cells, the record's id and
\* then the eight values, so that each value stands one column to the right
\* of its header and the date stands under no header
C20_HtmlCellsShifted ==
  View = "dashboard" =>
    LET data == ExportData
        report == exportToPrintableHTML(data)
    IN  /\ Len(report.headers) = 8
        /\ \A i \in 1..Len(data) :
             /\ Len(report.rows[i]) = Len(report.headers) + 1
             /\ report.rows[i][1] = NumberToString(data[i].id)
             /\ \A c \in 1..Len(report.headers) :
                  report.rows[i][c + 1] = HtmlFieldValues(data[i])[c]

\* ------------------------------------------------------------------------
\* 'Acme, "Bob" Co' and the field it is to be exported as
AcmeBob == QuotedPool[1]
AcmeBobQuoted ==
  <<34, 65, 99, 109, 101, 44, 32, 34, 34, 66, 111, 98, 34, 34, 32, 67, 111, 34>>

\* the text v, "Not specified" for an absent one, between double quotes with
\* each of its double quotes written twice: character k of the text stands
\* behind the opening quote and as many extra quotes as the text has double
\* quotes before k
QuotedField(v) ==
  LET t == IF v = NULL \/ v = Empty THEN NotSpecified ELSE v
      q == [k \in 0..Len(t) |-> Cardinality({j \in 1..k : t[j] = 34})]
      inner == [p \in 1..(Len(t) + q[Len(t)]) |->
                  t[CHOOSE k \in 1..Len(t) : k + q[k - 1] <= p /\ p <= k + q[k]]]
  IN  <<34>> \o inner \o <<34>>

\* C21: in every CSV data row the seven text fields are written between
\* double quotes with every double quote of the text doubled, "Not specified"
\* standing for an absent value, and the id is written bare;
\* 'Acme, "Bob" Co' is written "Acme, ""Bob"" Co"
C21_CsvQuoting ==
  LET data == ExportData
      lines == LinesOf(convertToCSV(data))
  IN  /\ \A i \in 1..Len(data) :
           lines[i + 1] =
             Join(<< NumberToString(data[i].id),
                     QuotedField(data[i].project_name), QuotedField(data[i].location),
                     QuotedField(data[i].project_type), QuotedField(data[i].stage),
                     QuotedField(data[i].stakeholders), QuotedField(data[i].project_value),
                     QuotedField(data[i].source_link),
                     ExportDate(data[i].date_added) >>, <<44>>)
      /\ CsvText(AcmeBob) = AcmeBobQuoted

\* an export after a header click of a record with the stakeholders of the
\* scenario, a text with two double quotes in a row and an absent value
C21_Witness ==
  /\ last.op = "handleSort" /\ View = "dashboard"
  /\ \E i \in 1..Len(ExportData) :
       /\ ExportData[i].stakeholders = AcmeBob
       /\ ExportData[i].project_name = <<34>>
       /\ ExportData[i].location = <<97, 34, 34, 98>>
       /\ ExportData[i].project_type = NULL

\* ------------------------------------------------------------------------
\* C22: where the filtered and sorted list is empty the export control is not
\* rendered and no CSV, JSON or HTML download is made: every download step
\* starts where the dashboard shows a non-empty list and downloads that list;
\* an empty list is not an error
C22_NoExportOfNothing ==
  [][LET listed == filteredAndSortedProjects
     IN  /\ last'.op \in ExportOps =>
              /\ View = "dashboard" /\ Len(listed) > 0
              /\ last'.exported = listed
              /\ error' = ErrNull
         /\ Len(listed) = 0 =>
              ~ExportButtonShown /\ last'.op \notin ExportOps /\ error = ErrNull]_vars

\* a search left nothing of a fetched list that is not empty
C22_Witness ==
  /\ View = "dashboard" /\ Len(projects) > 0 /\ Len(filteredAndSortedProjects) = 0
  /\ last.op = "handleSearch" /\ searchTerm # Empty
  /\ ~ExportButtonShown

\* ------------------------------------------------------------------------
\* a fetch is pending and no data has been loaded
LoadingFetch == loading /\ inflight # << >>

\* C23 as stated: while a fetch is pending and loading is true the loading
\* state is shown, no table interaction (a step of NextView: search, filter
\* choice, clearing of the filters, header click, page-size choice or page
\* button) can occur and no step changes the view state
C23_LoadingShownAndFrozen ==
  [][LoadingFetch =>
       /\ View = "skeleton"
       /\ ~ENABLED NextView
       /\ UNCHANGED viewVars]_vars

\* C23 amended: while a fetch is pending and loading is true, the loading
\* state is shown to a user who is still signed in and the sign-in panel to
\* one whose session has ended; either way no table interaction can occur and
\* no step changes the view state
C23_LoadingFrozen ==
  [][LoadingFetch =>
       /\ View = (IF isSignedIn THEN "skeleton" ELSE "signIn")
       /\ ~ENABLED NextView
       /\ UNCHANGED viewVars]_vars

\* the first fetch is answered but not settled: the loading state is shown
C23_Witness ==
  /\ LoadingFetch /\ isSignedIn /\ View = "skeleton"
  /\ \E i \in 1..Len(inflight) : inflight[i].phase = "answered"

\* the session ended while the first fetch is pending
C23_SignedOutWhileLoading == LoadingFetch /\ ~isSignedIn /\ last.op = "SignOut"

\* ------------------------------------------------------------------------
\* C24: in every reachable state 1 <= currentPage <= max(1, totalPages), and
\* the displayed rows are non-empty whenever the filtered list is non-empty
C24_PageInRange ==
  LET listed == filteredAndSortedProjects
      pages == CeilDiv(Len(listed), itemsPerPage)
  IN  /\ 1 <= currentPage
      /\ currentPage <= (IF pages > 1 THEN pages ELSE 1)
      /\ listed # << >> =>
           Slice(listed, (currentPage - 1) * itemsPerPage, currentPage * itemsPerPage) # << >>

\* a successful refresh has replaced the list while page 2 was shown
C24_RefreshedOnLaterPage ==
  /\ last.op = "settle" /\ last.isRefresh /\ last.ok
  /\ currentPage > 1
  /\ Len(projects) < Len(last.before)

\* ------------------------------------------------------------------------
\* the texts of a list are strictly ascending, hence without repetition
StrictlyAscending(texts) ==
  \A i \in 1..(Len(texts) - 1) : StringLess(texts[i], texts[i + 1])

\* the options offered by the three selects are the distinct stage, type and
\* source-type values of the held list, whatever the search and the filters,
\* in ascending order
C25_OptionsAreDistinctValues ==
  LET stages == uniqueStages
      types == uniqueTypes
      sources == uniqueSourceTypes
  IN  /\ StrictlyAscending(stages) /\ StrictlyAscending(types) /\ StrictlyAscending(sources)
      /\ {stages[i] : i \in 1..Len(stages)} =
           {IF Falsy(projects[i].stage) THEN NotSpecified ELSE projects[i].stage :
              i \in 1..Len(projects)}
      /\ {types[i] : i \in 1..Len(types)} =
           {IF Falsy(projects[i].project_type) THEN NotSpecified
            ELSE projects[i].project_type : i \in 1..Len(projects)}
      /\ {sources[i] : i \in 1..Len(sources)} =
           {getSourceType(projects[i].source_link) : i \in 1..Len(projects)}

\* C25: the filter option lists are exactly the distinct values of the held
\* list in ascending order, and each active filter value is empty or one of
\* the options offered, also after a successful refresh replaced the list
C25_FiltersAmongOptions ==
  /\ C25_OptionsAreDistinctValues
  /\ filterStage = Empty \/ \E i \in 1..Len(uniqueStages) : uniqueStages[i] = filterStage
  /\ filterType = Empty \/ \E i \in 1..Len(uniqueTypes) : uniqueTypes[i] = filterType
  /\ filterSource = Empty \/
       \E i \in 1..Len(uniqueSourceTypes) : uniqueSourceTypes[i] = filterSource

\* a successful refresh has replaced the list while a stage filter was chosen
C25_RefreshedUnderFilter ==
  /\ last.op = "settle" /\ last.isRefresh /\ last.ok
  /\ filterStage # Empty
  /\ projects # last.before

\* ------------------------------------------------------------------------
\* pending call i has been answered with a list
AnsweredWithList(calls, i) ==
  calls[i].phase = "answered" /\ calls[i].response.status = 200

\* C26: when two fetches overlap and both settle successfully, the list held
\* afterwards is the one brought by the fetch that was started last, whatever
\* the order of arrival.  Stated on the step in which the first of the two
\* (call i) settles successfully while the other (call j of the calls still
\* pending) has its list ready: the settling of the other then leaves the
\* list of whichever of the two was started last.
C26_LastStartedWins ==
  [][\A i \in 1..Len(inflight) :
       /\ last'.op = "settle" /\ last'.ok
       /\ AnsweredWithList(inflight, i)
       /\ inflight' = RemoveAt(inflight, i)
       /\ projects' = inflight[i].response.rows
       => \A j \in 1..Len(inflight') :
            AnsweredWithList(inflight', j) =>
              settleState(inflight'[j].response, FALSE, TRUE, projects', error').projects =
                (IF j >= i THEN inflight'[j].response.rows ELSE inflight[i].response.rows)]_vars

\* the fetch started first settles successfully after the one started last
\* has: the list it was answered with differs from the one held
C26_OlderArrivesLast ==
  /\ Len(inflight) = 1 /\ AnsweredWithList(inflight, 1)
  /\ inflight[1].overlapped
  /\ last.op = "settle" /\ last.ok /\ last.overlapped
  /\ projects # inflight[1].response.rows

\* ------------------------------------------------------------------------
\* the pending calls started by the Refresh button
PendingRefreshes == {i \in 1..Len(inflight) : inflight[i].isRefresh}

\* C27: at most one manual refresh is in flight, and the Refresh button is
\* disabled (refreshing is true) for as long as one is pending
C27_OneRefreshInFlight ==
  /\ Cardinality(PendingRefreshes) <= 1
  /\ PendingRefreshes # {} => refreshing

\* a second manual refresh was started while the first is pending
C27_TwoRefreshes == Cardinality(PendingRefreshes) = 2 /\ last.op = "handleRefresh"

\* the Refresh button is enabled while a manual refresh is pending
C27_EnabledWhilePending ==
  /\ PendingRefreshes # {} /\ ~refreshing /\ View = "dashboard"
  /\ last.op = "settle" /\ ~last.isRefresh

\* ------------------------------------------------------------------------
\* both indicators are false once the last pending fetch has settled, by
\* success or by failure
C28_IdleAfterLastSettle ==
  last.op = "settle" /\ inflight = << >> => ~loading /\ ~refreshing

\* C28: loading or refreshing is true whenever some fetch is pending (so the
\* indicator of a pending fetch stays set when another fetch settles), and
\* both are false once every started fetch has settled
C28_IndicatorsTrackFetches ==
  /\ inflight # << >> => loading \/ refreshing
  /\ C28_IdleAfterLastSettle

\* a fetch has settled while another is pending, and no indicator is set
C28_PendingWithoutIndicator ==
  /\ last.op = "settle" /\ inflight # << >>
  /\ ~loading /\ ~refreshing

\* ------------------------------------------------------------------------
\* the handlers that change what is listed, how it is ordered or how it is
\* sliced
ListingOps == {"handleSearch", "handleFilter", "clearFilters", "handleSort", "setItemsPerPage"}

\* C29: a step that sets the search term, a filter, the sort or the page size
\* (or clears the filters) leaves the current page at 1; a step of the page
\* buttons changes the current page only
C29_PageResetFrame ==
  [][/\ (last'.op \in ListingOps \/ <<sortVars, filterVars, itemsPerPage>>' #
                                      <<sortVars, filterVars, itemsPerPage>>)
          => currentPage' = 1
     /\ last'.op = "goToPage" =>
          /\ currentPage' # currentPage
          /\ UNCHANGED <<sortVars, filterVars, itemsPerPage, authVars, dataVars, inflight>>]_vars

\* a header was clicked on a list of several pages, sorted by another field
\* than at the start, and page 1 is shown
C29_Witness ==
  /\ last.op = "handleSort" /\ sortField # "date_added"
  /\ currentPage = 1 /\ Len(projects) > itemsPerPage
  /\ filterStage = Empty /\ filterType = Empty /\ filterSource = Empty /\ searchTerm = Empty

\* ------------------------------------------------------------------------
\* the rule of a header click: the direction flips on the current sort field,
\* another field is sorted ascending
SortClickRule ==
  last'.op = "handleSort" =>
    IF last'.field = sortField
    THEN /\ sortField' = sortField
         /\ sortDirection = "asc" => sortDirection' = "desc"
         /\ sortDirection = "desc" => sortDirection' = "asc"
    ELSE sortField' = last'.field /\ sortDirection' = "asc"

\* C30 as stated: the table starts sorted by date_added descending, a header
\* click follows the rule, and a second click on the header just clicked,
\* whichever it is, brings back the field and direction held before the first
C30_SortToggle ==
  /\ sortField = "date_added" /\ sortDirection = "desc"
  /\ [][/\ SortClickRule
        /\ last'.op = "handleSort" =>
             handleSortState(last'.field, sortField', sortDirection') =
               [sortField |-> sortField, sortDirection |-> sortDirection]]_vars

\* C30 amended: the table starts sorted by date_added descending, a header
\* click follows the rule, and a second click on the header just clicked
\* brings back the field and direction held before the first if that header
\* was the current sort field; otherwise it leaves the clicked field sorted
\* descending
C30_SortToggleOfCurrentField ==
  /\ sortField = "date_added" /\ sortDirection = "desc"
  /\ [][/\ SortClickRule
        /\ last'.op = "handleSort" =>
             handleSortState(last'.field, sortField', sortDirection') =
               (IF last'.field = sortField
                THEN [sortField |-> sortField, sortDirection |-> sortDirection]
                ELSE [sortField |-> last'.field, sortDirection |-> "desc"])]_vars

\* the current header was clicked twice: the date header, descending again
C30_Witness ==
  /\ last.op = "handleSort" /\ last.field = "date_added"
  /\ sortField = "date_added" /\ sortDirection = "desc"

\* another header was clicked twice
C30_OtherHeaderTwice ==
  /\ last.op = "handleSort" /\ last.field = "stage"
  /\ sortField = "stage" /\ sortDirection = "desc"

====
